---- MODULE Spec2Model ----
(***************************************************************************)
(* A model of package openfigi (tomarus/openfigi): NewRequest, the request *)
(* setters, Do with its cache-aside layer (getCache / setCache on a Redis  *)
(* pool) and the classification of the HTTP-200 body.                      *)
(*                                                                         *)
(* Go strings are TLA+ strings.  Two strings of the bounded universe,      *)
(* BadFF and BadFE, stand for the one-byte Go strings "\xff" and "\xfe",   *)
(* which are not valid UTF-8.  JSON documents that the program decodes are *)
(* kept as syntax trees (JNull, JStr, JNum, JArr, JObj) or NotJSON; the    *)
(* serialized request, which is the cache key and the HTTP body, is kept   *)
(* as its text.                                                            *)
(***************************************************************************)
EXTENDS Naturals, Sequences, FiniteSets, TLC

VARIABLES
    rpool,   \* package variable rpool: FALSE is nil, TRUE is a pool
    store,   \* the key-value store behind the pool: key text -> stored bytes
    fr,      \* the caller's *FIGIRequest (NilRequest before a construction)
    last,    \* the most recent call and what it returned and performed
    done,    \* history: key text -> what a Do with caching returned for it
    ndo      \* number of Do calls so far

vars == <<rpool, store, fr, last, done, ndo>>

(***************************************************************************)
(* Bounds                                                                  *)
(***************************************************************************)
MaxDo == 2

(***************************************************************************)
(* Program constants                                                       *)
(***************************************************************************)
defaultTimeout == 10

StatusOK == 200

ValidIdentifiers ==
    << "ID_ISIN", "ID_BB_UNIQUE", "ID_SEDOL", "ID_COMMON", "ID_WERTPAPIER",
       "ID_CUSIP", "ID_CINS", "ID_BB", "ID_ITALY", "ID_EXCH_SYMBOL",
       "ID_FULL_EXCHANGE_SYMBOL", "COMPOSITE_ID_BB_GLOBAL",
       "ID_BB_GLOBAL_SHARE_CLASS_LEVEL", "ID_BB_GLOBAL", "ID_BB_SEC_NUM_DES",
       "TICKER", "ID_CUSIP_8_CHR", "OCC_SYMBOL", "UNIQUE_ID_FUT_OPT",
       "OPRA_SYMBOL", "TRADING_SYSTEM_IDENTIFIER" >>

\* The json names of the fields of struct FIGI.
FIGIFields ==
    { "figi", "securityType", "marketSector", "ticker", "name", "uniqueID",
      "exchCode", "shareClassFIGI", "compositeFIGI", "securityType2",
      "securityDescription", "uniqueIDFutOpt" }

(***************************************************************************)
(* Errors: a Go error value is a record of its kind and its text.          *)
(***************************************************************************)
Error(kind, msg) == [kind |-> kind, msg |-> msg]

NoError == Error("nil", "")

ErrNotValidIdentifier == Error("ErrNotValidIdentifier", "not a valid identifier")

ErrWrongStatus == Error("ErrWrongStatus", "wrong status received from api")

ErrAPIError == Error("ErrAPIError", "unknown api error occured")

ErrNoIdentifierFound == Error("ErrNoIdentifierFound", "no identifier found")

ErrCacheError == Error("ErrCacheError", "redis cache error")

(***************************************************************************)
(* Strings and their JSON encoding                                         *)
(***************************************************************************)
BadFF == "\\xff"

BadFE == "\\xfe"

\* The strings of the bounded universe that are not valid UTF-8.
InvalidUTF8 == { BadFF, BadFE }

ValidUTF8(s) == s \notin InvalidUTF8

\* encoding/json writes a string between quotes and writes every byte that is
\* not valid UTF-8 as the escape \ufffd.  (No string of the bounded universe
\* holds a character that JSON escapes.)
JSONString(s) ==
    IF ValidUTF8(s) THEN "\"" \o s \o "\"" ELSE "\"\\ufffd\""

\* What a string becomes once written by the encoder and read back.
CoerceUTF8(s) == IF ValidUTF8(s) THEN s ELSE "\\ufffd"

RECURSIVE Join(_, _)
Join(parts, sep) ==
    IF parts = <<>> THEN ""
    ELSE IF Len(parts) = 1 THEN parts[1]
    ELSE parts[1] \o sep \o Join(Tail(parts), sep)

(***************************************************************************)
(* FIGIRequest                                                             *)
(***************************************************************************)
NilRequest == [nil |-> TRUE]

FIGIRequest(idtype, idvalue, exch, mic, cur, sector, key, tmo) ==
    [ nil |-> FALSE, IDType |-> idtype, IDValue |-> idvalue,
      ExchangeCode |-> exch, MICCode |-> mic, Currency |-> cur,
      MarketSector |-> sector, apiKey |-> key, timeout |-> tmo ]

\* MarshalRequest with ExchangeCode left out of the encoding.
MarshalRequestNoExchange(r) ==
    "{" \o Join(   (IF r.IDType = "" THEN <<>>
                    ELSE << JSONString("idType") \o ":" \o JSONString(r.IDType) >>)
                \o (IF r.IDValue = "" THEN <<>>
                    ELSE << JSONString("idValue") \o ":" \o JSONString(r.IDValue) >>),
                ",") \o "}"

\* One member of the encoded struct; `omitempty` drops an empty string.
OmitEmpty(name, val) ==
    IF val = "" THEN <<>> ELSE << JSONString(name) \o ":" \o JSONString(val) >>

\* json.Marshal of one FIGIRequest: the exported fields in declaration order;
\* apiKey and timeout are unexported and never written.
MarshalRequest(r) ==
    "{" \o Join(   OmitEmpty("idType", r.IDType)
                \o OmitEmpty("idValue", r.IDValue)
                \o OmitEmpty("exchCode", r.ExchangeCode)
                \o OmitEmpty("micCode", r.MICCode)
                \o OmitEmpty("currency", r.Currency)
                \o OmitEmpty("marketSecDes", r.MarketSector), ",") \o "}"

\* json.Marshal([]*FIGIRequest{fr}): the one-element batch.
MarshalBatch(r) == "[" \o MarshalRequest(r) \o "]"

\* isValidIdentifier with a loop that stops one element early.
isValidIdentifierShort(v) ==
    \E i \in 1..(Len(ValidIdentifiers) - 1) : v = ValidIdentifiers[i]

isValidIdentifier(v) == \E i \in 1..Len(ValidIdentifiers) : v = ValidIdentifiers[i]

(***************************************************************************)
(* JSON documents as syntax trees                                          *)
(***************************************************************************)
NotJSON == [t |-> "bad"]

JNull == [t |-> "null"]

JNum == [t |-> "num"]

JStr(s) == [t |-> "str", s |-> s]

JArr(a) == [t |-> "arr", a |-> a]

\* o is a function from member names to JSON values.
JObj(o) == [t |-> "obj", o |-> o]

SyntaxError == Error("json.SyntaxError", "invalid character")

UnmarshalTypeError == Error("json.UnmarshalTypeError", "cannot unmarshal")

(***************************************************************************)
(* FIGI records, pointers to them and slices of pointers                   *)
(***************************************************************************)
NilFIGI == [nil |-> TRUE]

PtrFIGI(v) == [nil |-> FALSE, v |-> v]

NilSlice == [nil |-> TRUE, items |-> <<>>]

Slice(items) == [nil |-> FALSE, items |-> items]

\* Whether json.Unmarshal stores v into a string without a type error: a
\* JSON string is stored, null leaves the string as it is.
StringOk(v) == v.t \in {"str", "null"}

\* v decoded into a *FIGI: null is the nil pointer; an object is a new struct
\* whose fields are the object's members of those names (other members are
\* skipped, a null member leaves the field empty).
FIGIOk(v) ==
    \/ v.t = "null"
    \/ /\ v.t = "obj"
       /\ \A k \in DOMAIN v.o \cap FIGIFields : StringOk(v.o[k])

DecodeFIGI(v) ==
    IF v.t = "null" THEN NilFIGI
    ELSE PtrFIGI([f \in FIGIFields |->
                    IF f \in DOMAIN v.o /\ v.o[f].t = "str" THEN v.o[f].s ELSE ""])

\* v decoded into a []*FIGI: null is the nil slice, an array is a slice of
\* its decoded elements (non-nil also when it is empty).
FIGIsOk(v) ==
    \/ v.t = "null"
    \/ /\ v.t = "arr"
       /\ \A i \in 1..Len(v.a) : FIGIOk(v.a[i])

DecodeFIGIs(v) ==
    IF v.t = "null" THEN NilSlice
    ELSE Slice([i \in 1..Len(v.a) |-> DecodeFIGI(v.a[i])])

\* json.Marshal of a []*FIGI, as setCache writes it: a nil slice is null, a
\* nil pointer is null, a struct is an object of all twelve members.
MarshalFIGI(p) ==
    IF p.nil THEN JNull
    ELSE JObj([f \in FIGIFields |-> JStr(CoerceUTF8(p.v[f]))])

MarshalFIGIs(s) ==
    IF s.nil THEN JNull
    ELSE JArr([i \in 1..Len(s.items) |-> MarshalFIGI(s.items[i])])

\* json.Unmarshal(b, &data) with data := []*FIGI{}, as getCache reads it.
UnmarshalFIGIs(b) ==
    IF b.t = "bad" THEN [data |-> Slice(<<>>), err |-> SyntaxError]
    ELSE IF ~FIGIsOk(b) THEN [data |-> Slice(<<>>), err |-> UnmarshalTypeError]
    ELSE [data |-> DecodeFIGIs(b), err |-> NoError]

(***************************************************************************)
(* The two decodings of the response body                                  *)
(***************************************************************************)
\* One element of []map[string][]*FIGI: null is a nil map, an object is a
\* map of its members, each decoded into a []*FIGI.
EnvelopeOk(v) ==
    \/ v.t = "null"
    \/ /\ v.t = "obj"
       /\ \A k \in DOMAIN v.o : FIGIsOk(v.o[k])

\* json.Unmarshal(body, &data) with data := []map[string][]*FIGI{}: whether
\* it returns a nil error.
SuccessShapeOk(body) ==
    \/ body.t = "null"
    \/ /\ body.t = "arr"
       /\ \A i \in 1..Len(body.a) : EnvelopeOk(body.a[i])

\* len(data) after that decoding.
OuterLen(body) == IF body.t = "arr" THEN Len(body.a) ELSE 0

\* FirstData reading the last envelope instead of the first.
FirstDataOfLast(body) ==
    LET e == body.a[Len(body.a)]
    IN  IF e.t = "obj" /\ "data" \in DOMAIN e.o THEN DecodeFIGIs(e.o["data"])
        ELSE NilSlice

\* data[0]["data"] after the first decoding: the nil slice when the map is
\* nil or has no such key.
FirstData(body) ==
    LET e == body.a[1]
    IN  IF e.t = "obj" /\ "data" \in DOMAIN e.o THEN DecodeFIGIs(e.o["data"])
        ELSE NilSlice

\* One element of []map[string]string.
ErrorEnvelopeOk(v) ==
    \/ v.t = "null"
    \/ /\ v.t = "obj"
       /\ \A k \in DOMAIN v.o : StringOk(v.o[k])

\* json.Unmarshal(body, &data) with data := []map[string]string{}.
ErrorShapeOk(body) ==
    \/ body.t = "null"
    \/ /\ body.t = "arr"
       /\ \A i \in 1..Len(body.a) : ErrorEnvelopeOk(body.a[i])

\* data[0]["error"] after the second decoding: empty when the map is nil,
\* has no such key, or holds null there.
FirstError(body) ==
    LET e == body.a[1]
    IN  IF e.t = "obj" /\ "error" \in DOMAIN e.o /\ e.o["error"].t = "str"
        THEN e.o["error"].s
        ELSE ""

(***************************************************************************)
(* fmt.Errorf(data[0]["error"]): the message is the format string, and no  *)
(* operand follows it, so a verb in it is written as %!verb(MISSING).  Of  *)
(* the messages of the bounded universe only VerbMessage holds a verb.     *)
(***************************************************************************)
VerbMessage == "Bad %s."

Sprintf(format) == IF format = VerbMessage THEN "Bad %!s(MISSING)." ELSE format

Errorf(format) == Error("fmt.errorString", Sprintf(format))

(***************************************************************************)
(* The environment of one Do: what the store and the service answer        *)
(***************************************************************************)
NetError == Error("net", "Post: dial tcp: i/o timeout")

ReadError == Error("io", "unexpected EOF")

RedisError == Error("redis", "dial tcp: connection refused")

\* What client.Do returns: an error, or a response whose body may fail to
\* be read.
NoResponse == [sent |-> FALSE]

Failed == [sent |-> TRUE, neterr |-> TRUE]

Response(status, readable, body) ==
    [sent |-> TRUE, neterr |-> FALSE, status |-> status, readable |-> readable,
     body |-> body]

\* One I/O call of an operation: a Redis command with its key, or the POST
\* with its body and its X-OPENFIGI-APIKEY header ("" is no header), and
\* whether the call returned without an error.
Event(ev, arg, hdr, ok) == [ev |-> ev, arg |-> arg, hdr |-> hdr, ok |-> ok]

\* An entry of the store: the bytes, and (history) the request whose Do
\* wrote them, NilRequest for bytes that were there before the program ran.
Entry(bytes, by) == [bytes |-> bytes, by |-> by]

(***************************************************************************)
(* getCache and setCache                                                   *)
(***************************************************************************)
\* getCache without the check for a nil pool.
getCacheNoNilCheck(pool, st, key, getErr) ==
    LET io == << Event("GET", key, "", ~getErr) >>
    IN  IF getErr THEN [data |-> NilSlice, err |-> RedisError, io |-> io]
        ELSE IF key \notin DOMAIN st
             THEN [data |-> NilSlice, err |-> NoError, io |-> io]
        ELSE LET u == UnmarshalFIGIs(st[key].bytes)
             IN  [data |-> u.data, err |-> u.err, io |-> io]

\* getCache(key): with no pool a miss and no command; else one GET, whose
\* error is returned, whose nil reply is a miss, and whose bytes are decoded
\* (the decoded slice and the decoding error are returned together).
getCache(pool, st, key, getErr) ==
    IF ~pool THEN [data |-> NilSlice, err |-> NoError, io |-> <<>>]
    ELSE LET io == << Event("GET", key, "", ~getErr) >>
         IN  IF getErr THEN [data |-> NilSlice, err |-> RedisError, io |-> io]
             ELSE IF key \notin DOMAIN st
                  THEN [data |-> NilSlice, err |-> NoError, io |-> io]
             ELSE LET u == UnmarshalFIGIs(st[key].bytes)
                  IN  [data |-> u.data, err |-> u.err, io |-> io]

\* st with key set to value.
Put(st, key, value) ==
    [k \in DOMAIN st \cup {key} |-> IF k = key THEN value ELSE st[k]]

\* setCache(key, data) called by the Do of request r: with no pool nothing;
\* else one SET of the marshalled slice, whose error is returned.
setCache(pool, st, key, data, r, setErr) ==
    IF ~pool THEN [err |-> NoError, io |-> <<>>, store |-> st]
    ELSE LET io == << Event("SET", key, "", ~setErr) >>
         IN  IF setErr THEN [err |-> RedisError, io |-> io, store |-> st]
             ELSE [err |-> NoError, io |-> io,
                   store |-> Put(st, key, Entry(MarshalFIGIs(data), r))]

(***************************************************************************)
(* Do                                                                      *)
(***************************************************************************)
\* The classification of an HTTP-200 body (the two json.Unmarshal attempts):
\* the records and a nil error, or no records and the error.
Classify(body) ==
    IF body.t = "bad" THEN [data |-> NilSlice, err |-> SyntaxError]
    ELSE IF ~SuccessShapeOk(body) THEN
        IF ~ErrorShapeOk(body) THEN [data |-> NilSlice, err |-> UnmarshalTypeError]
        ELSE IF OuterLen(body) = 0 THEN [data |-> NilSlice, err |-> ErrAPIError]
        ELSE LET e == FirstError(body)
             IN  IF e = "No identifier found."
                 THEN [data |-> NilSlice, err |-> ErrNoIdentifierFound]
                 ELSE IF e # "" THEN [data |-> NilSlice, err |-> Errorf(e)]
                 ELSE [data |-> NilSlice, err |-> ErrAPIError]
    ELSE IF OuterLen(body) = 0 THEN [data |-> NilSlice, err |-> ErrAPIError]
    ELSE [data |-> FirstData(body), err |-> NoError]

\* What Do returns and performs.
Return(data, err, io, resp, st) ==
    [data |-> data, err |-> err, io |-> io, resp |-> resp, store |-> st]

\* DoBody returning the fetched records together with ErrCacheError.
DoBodyKeepData(r, pool, st, js, io, env) ==
    LET c == Classify(env.resp.body)
    IN  IF c.err # NoError THEN Return(NilSlice, c.err, io, env.resp, st)
        ELSE LET w == setCache(pool, st, js, c.data, r, env.setErr)
             IN  IF w.err # NoError
                 THEN Return(c.data, ErrCacheError, io \o w.io, env.resp, st)
                 ELSE Return(c.data, NoError, io \o w.io, env.resp, w.store)

\* DoBody writing the cache before it looks at the classification's error.
DoBodySetAlways(r, pool, st, js, io, env) ==
    LET c == Classify(env.resp.body)
        w == setCache(pool, st, js, c.data, r, env.setErr)
    IN  IF c.err # NoError THEN Return(NilSlice, c.err, io \o w.io, env.resp, w.store)
        ELSE IF w.err # NoError
             THEN Return(NilSlice, ErrCacheError, io \o w.io, env.resp, st)
             ELSE Return(c.data, NoError, io \o w.io, env.resp, w.store)

\* After a response with status 200 whose body was read.
DoBody(r, pool, st, js, io, env) ==
    LET c == Classify(env.resp.body)
    IN  IF c.err # NoError THEN Return(NilSlice, c.err, io, env.resp, st)
        ELSE LET w == setCache(pool, st, js, c.data, r, env.setErr)
             IN  IF w.err # NoError
                 THEN Return(NilSlice, ErrCacheError, io \o w.io, env.resp, st)
                 ELSE Return(c.data, NoError, io \o w.io, env.resp, w.store)

\* DoFetch without the status check.
DoFetchNoStatus(r, pool, st, js, io0, env) ==
    LET io == io0 \o << Event("HTTP", js, r.apiKey, ~env.resp.neterr) >>
    IN  IF env.resp.neterr THEN Return(NilSlice, NetError, io, env.resp, st)
        ELSE IF ~env.resp.readable
             THEN Return(NilSlice, ReadError, io, env.resp, st)
        ELSE DoBody(r, pool, st, js, io, env)

\* After a cache miss: the POST of js, with the API key header when one is
\* set, and the status check.
DoFetch(r, pool, st, js, io0, env) ==
    LET io == io0 \o << Event("HTTP", js, r.apiKey, ~env.resp.neterr) >>
    IN  IF env.resp.neterr THEN Return(NilSlice, NetError, io, env.resp, st)
        ELSE IF env.resp.status # StatusOK
             THEN Return(NilSlice, ErrWrongStatus, io, env.resp, st)
        ELSE IF ~env.resp.readable
             THEN Return(NilSlice, ReadError, io, env.resp, st)
        ELSE DoBody(r, pool, st, js, io, env)

\* Do falling back to the service when getCache returns an error.
DoOutcomeFallback(r, pool, st, env) ==
    LET js == MarshalBatch(r)
        cached == getCache(pool, st, js, env.getErr)
    IN  IF cached.err = NoError /\ ~cached.data.nil
        THEN Return(cached.data, cached.err, cached.io, NoResponse, st)
        ELSE DoFetch(r, pool, st, js, cached.io, env)

\* fr.Do() for request r, pool state pool and store st, when the store and
\* the service answer as env says.
DoOutcome(r, pool, st, env) ==
    LET js == MarshalBatch(r)
        cached == getCache(pool, st, js, env.getErr)
    IN  IF cached.err # NoError
        THEN Return(NilSlice, cached.err, cached.io, NoResponse, st)
        ELSE IF ~cached.data.nil
        THEN Return(cached.data, cached.err, cached.io, NoResponse, st)
        ELSE DoFetch(r, pool, st, js, cached.io, env)

(***************************************************************************)
(* Inputs of the bounded universe                                          *)
(***************************************************************************)
\* Identifier types offered to NewRequest under Spec.
IdTypes == { "ID_ISIN", "BOGUS" }

\* Identifier types offered to NewRequest under SpecNew: the whole list and
\* strings outside it.
AllIdTypes ==
    { ValidIdentifiers[i] : i \in 1..Len(ValidIdentifiers) }
        \cup { "BOGUS", "", "id_isin", "ID_ISIN ", BadFF }

IdValues == { "US3623931009" }

ExchangeCodes == { "", "US", BadFF, BadFE }

APIKeys == { "", "secret" }

GTT ==
    JObj([ figi |-> JStr("BBG000BLNNH6"), ticker |-> JStr("GTT"),
           name |-> JStr("GTT COMMUNICATIONS INC"), exchCode |-> JStr("US"),
           metadata |-> JNum ])

GTT2 == JObj([ figi |-> JStr("BBG000BLNQ16"), ticker |-> JStr("GTT"),
               exchCode |-> JNull ])

\* Bodies the service may answer with.
Bodies ==
    << JArr(<< JObj([data |-> JArr(<< GTT, GTT2 >>)]) >>),
       JArr(<< JObj([data |-> JArr(<< >>)]) >>),
       JArr(<< JObj([data |-> JNull]) >>),
       JArr(<< JObj([data |-> JArr(<< >>)]),
               JObj([data |-> JArr(<< GTT, GTT2 >>)]) >>),
       JArr(<< JObj([error |-> JStr("No identifier found.")]) >>),
       JArr(<< JObj([error |-> JStr("No identifier found."),
                     warning |-> JStr("deprecated")]) >>),
       JArr(<< JObj([error |-> JStr("No identifier found."),
                     code |-> JNum]) >>),
       JArr(<< JObj([error |-> JStr("Invalid idType.")]) >>),
       JArr(<< JObj([error |-> JStr(VerbMessage)]) >>),
       JArr(<< JObj([error |-> JStr("")]) >>),
       JArr(<< JObj([warning |-> JStr("No identifier found.")]) >>),
       JArr(<< >>),
       JObj([error |-> JStr("No identifier found.")]),
       NotJSON >>

\* Answers of client.Do.
Responses ==
    { Failed, Response(StatusOK, FALSE, NotJSON),
      Response(404, TRUE, Bodies[1]) }
        \cup { Response(StatusOK, TRUE, Bodies[i]) : i \in 1..Len(Bodies) }

\* Bytes a store may hold that this program did not write.
Foreign == { NotJSON, JStr("OK") }

\* The requests the bounded universe can build, and their keys.
Requests ==
    { FIGIRequest(t, v, e, "", "", "", k, defaultTimeout) :
        t \in { x \in IdTypes : isValidIdentifier(x) }, v \in IdValues,
        e \in ExchangeCodes, k \in APIKeys }

EmptyStore == [k \in {} |-> Entry(JNull, NilRequest)]

\* The key that may hold a foreign entry before the program runs.
ForeignKey ==
    MarshalBatch(FIGIRequest("ID_ISIN", "US3623931009", "US", "", "", "", "",
                             defaultTimeout))

\* The store before the program runs: empty, or one foreign entry.
InitStores ==
    { EmptyStore }
        \cup { Put(EmptyStore, ForeignKey, Entry(b, NilRequest)) : b \in Foreign }

(***************************************************************************)
(* The state machine                                                       *)
(***************************************************************************)
\* What `last` holds when the most recent call returns nothing.
Idle == [op |-> "none"]

Init ==
    /\ rpool = FALSE
    /\ store \in InitStores
    /\ fr = NilRequest
    /\ last = Idle
    /\ done = [k \in {} |-> NilSlice]
    /\ ndo = 0

\* RedisCache(addr): the pool is set; nothing is dialled.
RedisCache ==
    /\ rpool' = TRUE
    /\ last' = Idle
    /\ UNCHANGED <<store, fr, done, ndo>>

\* NewRequest(idtype, idvalue): the request and the error it returns, and
\* the I/O it performs (none).
NewRequestResult(idtype, idvalue) ==
    IF ~isValidIdentifier(idtype)
    THEN [req |-> NilRequest, err |-> ErrNotValidIdentifier, io |-> <<>>]
    ELSE [req |-> FIGIRequest(idtype, idvalue, "", "", "", "", "", defaultTimeout),
          err |-> NoError, io |-> <<>>]

NewRequestOver(types) ==
    \E idtype \in types, idvalue \in IdValues :
        LET res == NewRequestResult(idtype, idvalue)
        IN  /\ fr' = res.req
            /\ last' = [op |-> "NewRequest", idtype |-> idtype,
                        idvalue |-> idvalue, req |-> res.req, err |-> res.err,
                        io |-> res.io]
            /\ UNCHANGED <<rpool, store, done, ndo>>

NewRequest == NewRequestOver(IdTypes)

NewRequestAll == NewRequestOver(AllIdTypes)

\* fr.Exchange(exch)
Exchange ==
    /\ ~fr.nil
    /\ \E exch \in ExchangeCodes : fr' = [fr EXCEPT !.ExchangeCode = exch]
    /\ last' = Idle
    /\ UNCHANGED <<rpool, store, done, ndo>>

\* fr.APIKey(key)
APIKey ==
    /\ ~fr.nil
    /\ \E key \in APIKeys : fr' = [fr EXCEPT !.apiKey = key]
    /\ last' = Idle
    /\ UNCHANGED <<rpool, store, done, ndo>>

\* What the history holds for a key.
Prior(key) ==
    IF key \in DOMAIN done THEN [some |-> TRUE, data |-> done[key]]
    ELSE [some |-> FALSE]

\* fr.Do(): the store and the service answer in any way they can.
Do ==
    /\ ~fr.nil
    /\ ndo < MaxDo
    /\ \E getErr \in (IF rpool THEN BOOLEAN ELSE {FALSE}),
          setErr \in (IF rpool THEN BOOLEAN ELSE {FALSE}),
          resp \in Responses :
          LET env == [getErr |-> getErr, resp |-> resp, setErr |-> setErr]
              out == DoOutcome(fr, rpool, store, env)
              js == MarshalBatch(fr)
          IN  /\ store' = out.store
              /\ last' = [op |-> "Do", req |-> fr, pool |-> rpool, key |-> js,
                          prior |-> Prior(js),
                          entry |-> IF js \in DOMAIN store
                                    THEN [some |-> TRUE, bytes |-> store[js].bytes,
                                          by |-> store[js].by]
                                    ELSE [some |-> FALSE],
                          data |-> out.data, err |-> out.err, io |-> out.io,
                          resp |-> out.resp]
              /\ done' = IF rpool /\ out.err = NoError
                         THEN Put(done, js, out.data)
                         ELSE done
    /\ ndo' = ndo + 1
    /\ UNCHANGED <<rpool, fr>>

Next == RedisCache \/ NewRequest \/ Exchange \/ APIKey \/ Do

Spec == Init /\ [][Next]_vars

\* NewRequest over every identifier type, with the setters.
NextNew == RedisCache \/ NewRequestAll \/ Exchange \/ APIKey

SpecNew == Init /\ [][NextNew]_vars

(***************************************************************************)
(* Vocabulary of the claims                                                *)
(***************************************************************************)
IsDo == last.op = "Do"

\* The positions of the I/O calls of one kind in the most recent call.
Calls(kind) == { i \in 1..Len(last.io) : last.io[i].ev = kind }

\* The most recent call is a Do that got a response with this property.
Got200 == IsDo /\ last.resp.sent /\ ~last.resp.neterr /\ last.resp.status = 200

GotBody == Got200 /\ last.resp.readable

\* The most recent call is a Do answered from the cache.
CacheHit ==
    /\ IsDo
    /\ last.pool
    /\ last.err = NoError
    /\ Calls("HTTP") = {}

\* The exported fields other than ExchangeCode agree.
SameButExchange(a, b) ==
    /\ a.IDType = b.IDType
    /\ a.IDValue = b.IDValue
    /\ a.MICCode = b.MICCode
    /\ a.Currency = b.Currency
    /\ a.MarketSector = b.MarketSector

\* The identifier types of the fixed list.
ListedTypes == { ValidIdentifiers[i] : i \in 1..Len(ValidIdentifiers) }

(***************************************************************************)
(* C1                                                                      *)
(***************************************************************************)
\* C1: NewRequest(idType, idValue) with an idType outside the list of 21
\* codes returns ErrNotValidIdentifier and no request and performs no HTTP
\* call and no cache command; with an idType of the list it returns a
\* request of that type and value and no error.  (Checked under SpecNew,
\* which offers every code of the list.)
C1_NewRequestValidates ==
    /\ Cardinality(ListedTypes) = 21
    /\ last.op = "NewRequest" =>
        /\ last.io = <<>>
        /\ fr = last.req
        /\ IF last.idtype \in ListedTypes
           THEN /\ last.err = NoError
                /\ ~last.req.nil
                /\ last.req.IDType = last.idtype
                /\ last.req.IDValue = last.idvalue
           ELSE /\ last.err = ErrNotValidIdentifier
                /\ last.req.nil

C1_Witness ==
    /\ rpool
    /\ last.op = "NewRequest"
    /\ last.idtype = "BOGUS"
    /\ last.err = ErrNotValidIdentifier

(***************************************************************************)
(* C2                                                                      *)
(***************************************************************************)
\* The records of envelope e, in the order of its "data" array.
C2_Records(e) ==
    IF e.t = "obj" /\ "data" \in DOMAIN e.o /\ e.o["data"].t = "arr"
    THEN Slice([i \in 1..Len(e.o["data"].a) |-> DecodeFIGI(e.o["data"].a[i])])
    ELSE NilSlice

\* C2: when Do gets status 200 and a body that decodes as the success shape
\* with a non-empty outer array, and the cache is disabled or its SET
\* succeeds, Do returns no error and the record array of the first envelope,
\* in the order received.
C2_SuccessReturnsFirstEnvelope ==
    ( /\ GotBody
      /\ SuccessShapeOk(last.resp.body)
      /\ OuterLen(last.resp.body) >= 1
      /\ \A i \in Calls("SET") : last.io[i].ok )
    => /\ last.err = NoError
       /\ last.data = C2_Records(last.resp.body.a[1])

\* With caching enabled and a SET that succeeds, the two records of the
\* first envelope are returned in the order of the body.
C2_Witness ==
    /\ GotBody
    /\ last.pool
    /\ \E i \in Calls("SET") : last.io[i].ok
    /\ last.err = NoError
    /\ Len(last.data.items) = 2
    /\ last.data.items[1].v["name"] = "GTT COMMUNICATIONS INC"
    /\ last.data.items[2].v["figi"] = "BBG000BLNQ16"

\* Of two envelopes the first, whose record array is empty, is returned.
C2_WitnessFirstOfTwo ==
    /\ GotBody
    /\ OuterLen(last.resp.body) = 2
    /\ last.err = NoError
    /\ last.data = Slice(<<>>)

(***************************************************************************)
(* C3                                                                      *)
(***************************************************************************)
\* C3: with caching enabled, after a Do that returned successfully, a later
\* Do of a request with the same serialized fields returns the records of
\* that Do and performs no HTTP call, whatever those records are (an empty
\* or absent list included).  (The store answers the GET.)
C3_CacheRoundTrip ==
    ( /\ IsDo
      /\ last.pool
      /\ last.prior.some
      /\ \A i \in Calls("GET") : last.io[i].ok )
    => /\ last.err = NoError
       /\ last.data = last.prior.data
       /\ Calls("HTTP") = {}

\* The same for the results that are not the nil slice.
C3_NonNilRoundTrip ==
    ( /\ IsDo
      /\ last.pool
      /\ last.prior.some
      /\ ~last.prior.data.nil
      /\ \A i \in Calls("GET") : last.io[i].ok )
    => /\ last.err = NoError
       /\ last.data = last.prior.data
       /\ Calls("HTTP") = {}

C3_NonNilWitness ==
    /\ CacheHit
    /\ last.prior.some
    /\ last.prior.data = Slice(<<>>)
    /\ last.data = Slice(<<>>)

(***************************************************************************)
(* C4                                                                      *)
(***************************************************************************)
\* The body is one envelope whose "error" member is exactly this message.
C4_SaysNoIdentifierFound(body) ==
    /\ body.t = "arr"
    /\ Len(body.a) = 1
    /\ body.a[1].t = "obj"
    /\ "error" \in DOMAIN body.a[1].o
    /\ body.a[1].o["error"] = JStr("No identifier found.")

\* C4: for every HTTP-200 body whose single envelope has the error message
\* "No identifier found.", Do fails with ErrNoIdentifierFound, whatever
\* other members, of any JSON type, the envelope carries.
C4_NoIdentifierFoundAnyFields ==
    (GotBody /\ C4_SaysNoIdentifierFound(last.resp.body))
    => last.err = ErrNoIdentifierFound

\* The same for envelopes whose other members are strings or null.
C4_NoIdentifierFoundStringFields ==
    ( /\ GotBody
      /\ C4_SaysNoIdentifierFound(last.resp.body)
      /\ \A k \in DOMAIN last.resp.body.a[1].o :
            last.resp.body.a[1].o[k].t \in {"str", "null"} )
    => last.err = ErrNoIdentifierFound

(***************************************************************************)
(* C5                                                                      *)
(***************************************************************************)
\* C5: for every response with a status other than 200, Do fails with
\* ErrWrongStatus and returns no records and attempts no cache SET, also
\* when the body is valid JSON of the success shape.
C5_WrongStatus ==
    ( /\ IsDo
      /\ last.resp.sent
      /\ ~last.resp.neterr
      /\ last.resp.status # 200 )
    => /\ last.err = ErrWrongStatus
       /\ last.data = NilSlice
       /\ Calls("SET") = {}
       /\ last.key \in DOMAIN store => last.entry.some

C5_Witness ==
    /\ IsDo
    /\ last.pool
    /\ last.resp.sent
    /\ ~last.resp.neterr
    /\ last.resp.status = 404
    /\ SuccessShapeOk(last.resp.body)
    /\ OuterLen(last.resp.body) = 1
    /\ last.err = ErrWrongStatus

(***************************************************************************)
(* C6                                                                      *)
(***************************************************************************)
\* C6: while RedisCache was never called, every Do performs exactly one HTTP
\* call and no cache command, whatever its outcome and whatever Do calls
\* came before, and the store is as it was before the program ran.
C6_NoCacheOneCall ==
    /\ (IsDo /\ ~last.pool) =>
          /\ Len(last.io) = 1
          /\ last.io[1].ev = "HTTP"
          /\ last.io[1].arg = MarshalBatch(last.req)
    /\ ~rpool => (store \in InitStores /\ DOMAIN done = {})

C6_Witness ==
    /\ ~rpool
    /\ ndo = 2
    /\ IsDo
    /\ last.err = NoError
    /\ ~last.data.nil
    /\ Cardinality(Calls("HTTP")) = 1

(***************************************************************************)
(* C7                                                                      *)
(***************************************************************************)
\* C7: two requests that are identical except for a different exchange code
\* always use distinct cache keys, so a Do of one never returns records
\* cached by a Do of the other.
C7_ExchangeAlwaysDistinct ==
    (CacheHit /\ last.entry.some /\ ~last.entry.by.nil)
    => ~( /\ SameButExchange(last.entry.by, last.req)
          /\ last.entry.by.ExchangeCode # last.req.ExchangeCode )

\* C7 as amended: a Do is answered from an entry only if the request that
\* wrote the entry has the same serialized batch, byte for byte; and two
\* requests that differ only in the exchange code share an entry only if
\* both codes are not valid UTF-8 (the encoder writes each invalid byte as
\* the escape \ufffd, so such codes can serialize to the same bytes).
C7_SameEntryIffSameBytes ==
    /\ (CacheHit /\ last.entry.some /\ ~last.entry.by.nil)
        => /\ MarshalBatch(last.entry.by) = last.key
           /\ ( /\ SameButExchange(last.entry.by, last.req)
                /\ last.entry.by.ExchangeCode # last.req.ExchangeCode )
              => ( /\ ~ValidUTF8(last.entry.by.ExchangeCode)
                   /\ ~ValidUTF8(last.req.ExchangeCode) )
    /\ \A k \in DOMAIN store :
          (~store[k].by.nil /\ IsDo /\ SameButExchange(store[k].by, last.req)
             /\ (ValidUTF8(store[k].by.ExchangeCode) \/ ValidUTF8(last.req.ExchangeCode))
             /\ store[k].by.ExchangeCode # last.req.ExchangeCode)
          => k # last.key

\* A Do with exchange code US misses the entry that the Do of the request
\* without an exchange code wrote, and fetches.
C7_Witness ==
    /\ IsDo
    /\ last.pool
    /\ last.req.ExchangeCode = "US"
    /\ Calls("HTTP") # {}
    /\ \A i \in Calls("GET") : last.io[i].ok
    /\ \E k \in DOMAIN store :
          /\ ~store[k].by.nil
          /\ store[k].by.ExchangeCode = ""
          /\ SameButExchange(store[k].by, last.req)
          /\ k # last.key

(***************************************************************************)
(* C8                                                                      *)
(***************************************************************************)
\* C8: with caching enabled, when the fetch and the classification succeed
\* and the cache SET fails, Do fails with ErrCacheError and returns no
\* records; and no Do returns both records and an error.
C8_SetFailureDiscards ==
    /\ (IsDo /\ \E i \in Calls("SET") : ~last.io[i].ok)
          => (last.err = ErrCacheError /\ last.data = NilSlice)
    /\ (IsDo /\ last.err # NoError) => last.data = NilSlice

C8_Witness ==
    /\ GotBody
    /\ last.pool
    /\ SuccessShapeOk(last.resp.body)
    /\ OuterLen(last.resp.body) >= 1
    /\ Len(C2_Records(last.resp.body.a[1]).items) = 2
    /\ \E i \in Calls("SET") : ~last.io[i].ok
    /\ last.err = ErrCacheError

(***************************************************************************)
(* C9                                                                      *)
(***************************************************************************)
\* C9: in every Do a cache SET is attempted at most once, and only as the
\* last call after a GET that missed and a POST that was answered with
\* status 200 and a body classified as a success; its key is the byte
\* sequence of the GET's key and of the POST's body.  It is not attempted on
\* a cache hit, a transport error, another status or an error
\* classification.
C9_SetOnlyAfterSuccess ==
    IsDo =>
        /\ Cardinality(Calls("SET")) <= 1
        /\ Calls("SET") # {} =>
              /\ Len(last.io) = 3
              /\ last.io[1].ev = "GET" /\ last.io[1].ok
              /\ last.io[2].ev = "HTTP" /\ last.io[2].ok
              /\ last.io[3].ev = "SET"
              /\ last.io[1].arg = last.io[3].arg
              /\ last.io[2].arg = last.io[3].arg
              /\ last.io[3].arg = MarshalBatch(last.req)
              /\ GotBody
              /\ SuccessShapeOk(last.resp.body)
              /\ OuterLen(last.resp.body) >= 1
        /\ ( \/ Calls("HTTP") = {}
             \/ ~GotBody
             \/ last.err \notin {NoError, ErrCacheError} )
           => Calls("SET") = {}

C9_Witness ==
    /\ IsDo
    /\ Len(last.io) = 3
    /\ last.io[3].ev = "SET"
    /\ last.io[3].ok
    /\ last.key \in DOMAIN store
    /\ store[last.key].by = last.req

(***************************************************************************)
(* C10                                                                     *)
(***************************************************************************)
\* Stored bytes that do not decode as a list of records.
C10_Undecodable(b) == b.t \notin {"null", "arr"}

\* C10: with caching enabled, when the cache GET fails or the stored bytes
\* do not decode as a record list, Do returns that error and no records and
\* performs no HTTP call and no cache SET.
C10_CacheErrorNoFallback ==
    /\ (IsDo /\ \E i \in Calls("GET") : ~last.io[i].ok)
          => /\ last.err = RedisError
             /\ last.data = NilSlice
             /\ Len(last.io) = 1
    /\ ( /\ IsDo
         /\ last.pool
         /\ \A i \in Calls("GET") : last.io[i].ok
         /\ last.entry.some
         /\ C10_Undecodable(last.entry.bytes) )
          => /\ last.err \in {SyntaxError, UnmarshalTypeError}
             /\ last.data = NilSlice
             /\ Len(last.io) = 1
             /\ last.io[1].ev = "GET"

C10_Witness ==
    /\ IsDo
    /\ last.pool
    /\ last.entry.some
    /\ last.entry.bytes = JStr("OK")
    /\ last.err = UnmarshalTypeError
    /\ Len(last.io) = 1

(***************************************************************************)
(* C11                                                                     *)
(***************************************************************************)
\* The "error" member of the first envelope, "" when it is absent or null.
C11_Message(body) ==
    IF /\ body.a[1].t = "obj"
       /\ "error" \in DOMAIN body.a[1].o
       /\ body.a[1].o["error"].t = "str"
    THEN body.a[1].o["error"].s
    ELSE ""

\* The body fails the first decoding and passes the second.
C11_ErrorShapeOnly(body) ==
    /\ body.t # "bad"
    /\ ~SuccessShapeOk(body)
    /\ ErrorShapeOk(body)

\* C11: for an HTTP-200 body that does not decode as the success shape but
\* decodes as the error shape, an empty outer array yields ErrAPIError, the
\* message "No identifier found." yields ErrNoIdentifierFound, any other
\* non-empty message yields a generic error whose text is exactly that
\* message, and an empty or absent message yields ErrAPIError; an empty
\* outer array yields ErrAPIError also when it decodes as the success shape.
C11_ErrorClassification ==
    /\ (GotBody /\ C11_ErrorShapeOnly(last.resp.body)) =>
          IF OuterLen(last.resp.body) = 0 THEN last.err = ErrAPIError
          ELSE LET e == C11_Message(last.resp.body)
               IN  IF e = "No identifier found."
                   THEN last.err = ErrNoIdentifierFound
                   ELSE IF e # ""
                   THEN /\ last.err.kind = "fmt.errorString"
                        /\ last.err.msg = e
                   ELSE last.err = ErrAPIError
    /\ ( /\ GotBody
         /\ SuccessShapeOk(last.resp.body)
         /\ OuterLen(last.resp.body) = 0 )
          => last.err = ErrAPIError

\* The same, the text of the generic error being required to be the message
\* only for messages that hold no formatting verb.
C11_ErrorClassificationNoVerb ==
    /\ (GotBody /\ C11_ErrorShapeOnly(last.resp.body)) =>
          IF OuterLen(last.resp.body) = 0 THEN last.err = ErrAPIError
          ELSE LET e == C11_Message(last.resp.body)
               IN  IF e = "No identifier found."
                   THEN last.err = ErrNoIdentifierFound
                   ELSE IF e # ""
                   THEN /\ last.err.kind = "fmt.errorString"
                        /\ e # VerbMessage => last.err.msg = e
                   ELSE last.err = ErrAPIError
    /\ ( /\ GotBody
         /\ SuccessShapeOk(last.resp.body)
         /\ OuterLen(last.resp.body) = 0 )
          => last.err = ErrAPIError

C11_WitnessGeneric ==
    /\ GotBody
    /\ C11_ErrorShapeOnly(last.resp.body)
    /\ last.err = Error("fmt.errorString", "Invalid idType.")

C11_WitnessAbsent ==
    /\ GotBody
    /\ C11_ErrorShapeOnly(last.resp.body)
    /\ "error" \notin DOMAIN last.resp.body.a[1].o
    /\ last.err = ErrAPIError

(***************************************************************************)
(* C12                                                                     *)
(***************************************************************************)
\* The exported fields, which are the serialized ones, agree.
C12_SameSerializedFields(a, b) ==
    SameButExchange(a, b) /\ a.ExchangeCode = b.ExchangeCode

\* The most recent call is a Do with caching whose key holds an entry that
\* the successful Do of a request with the same serialized fields and
\* another API key wrote, and the store answers the GET.
C12_AfterOtherAPIKey ==
    /\ IsDo
    /\ last.pool
    /\ \A i \in Calls("GET") : last.io[i].ok
    /\ last.entry.some
    /\ ~last.entry.by.nil
    /\ C12_SameSerializedFields(last.entry.by, last.req)
    /\ last.entry.by.apiKey # last.req.apiKey

\* The key and the body of a Do are those of the request without an API
\* key, and the API key is the header of the POST.
C12_KeyWithoutAPIKey ==
    IsDo =>
        /\ last.key = MarshalBatch([last.req EXCEPT !.apiKey = ""])
        /\ \A i \in Calls("GET") \cup Calls("SET") :
              last.io[i].arg = last.key /\ last.io[i].hdr = ""
        /\ \A i \in Calls("HTTP") :
              last.io[i].arg = last.key /\ last.io[i].hdr = last.req.apiKey

\* C12: the cache key and the HTTP body do not depend on the API key, which
\* travels only in the X-OPENFIGI-APIKEY header; after a successful Do of a
\* request, a Do of a request equal in all serialized fields but with another
\* API key (or none) is a cache hit that returns the first's records with no
\* HTTP call.
C12_APIKeyIndependentHit ==
    /\ C12_KeyWithoutAPIKey
    /\ C12_AfterOtherAPIKey =>
          /\ last.prior.some
          /\ last.err = NoError
          /\ last.data = last.prior.data
          /\ Calls("HTTP") = {}

\* The same for the first results that are not the nil slice.
C12_APIKeyIndependentNonNilHit ==
    /\ C12_KeyWithoutAPIKey
    /\ (C12_AfterOtherAPIKey /\ last.entry.bytes # JNull) =>
          /\ last.prior.some
          /\ ~last.prior.data.nil
          /\ last.err = NoError
          /\ last.data = last.prior.data
          /\ Calls("HTTP") = {}

C12_WitnessHit ==
    /\ C12_AfterOtherAPIKey
    /\ last.req.apiKey = "secret"
    /\ last.entry.by.apiKey = ""
    /\ Calls("HTTP") = {}
    /\ Len(last.data.items) = 2

C12_WitnessHeader ==
    /\ IsDo
    /\ \E i \in Calls("HTTP") : last.io[i].hdr = "secret"

====
